---- MODULE Spec2Model ----
(***************************************************************************)
(* CineMatch (src/index.js): the stream handler of a Stremio addon.  One   *)
(* invocation resolves an IMDb id to a TMDb id, fetches the source item's  *)
(* details, fetches the "similar" and "recommendations" lists concurrently *)
(* (Promise.all), merges, deduplicates, filters, scores, sorts and         *)
(* truncates them and maps the survivors to streams.  Every outbound call  *)
(* goes through fetchWithRetry.                                            *)
(*                                                                         *)
(* Numbers.  JavaScript numbers are modelled by integers.  The inputs are  *)
(* drawn so that every quotient the scorer forms is exact: the source      *)
(* popularity always divides 50 * popularity, and vote averages are whole. *)
(* JavaScript's undefined (a missing field, NaN from parseInt) is the      *)
(* value Undefined.                                                        *)
(***************************************************************************)
EXTENDS Integers, Sequences, FiniteSets, TLC

VARIABLES
    MINIMUM_VOTE_COUNT,   \* line 6, read once at process start
    MAX_RECOMMENDATIONS,  \* line 7, read once at process start
    type,                 \* the request's media kind
    pc,                   \* where the handler's body stands
    call,                 \* one fetchWithRetry call per endpoint
    issued,               \* HTTP attempts issued so far, per endpoint
    delays,               \* backoff delays slept so far, per endpoint
    tmdbId,               \* line 135
    sourceDetails,        \* line 143
    all,                  \* the two slots of Promise.all, line 148
    allRecommendations,   \* line 154
    caught,               \* the handler's catch block ran, line 184
    result,               \* what the handler's promise settled to
    scoreIn,              \* arguments of a direct calculateRelevanceScore call
    scoreOut              \* its return value

vars == <<MINIMUM_VOTE_COUNT, MAX_RECOMMENDATIONS, type, pc, call, issued,
          delays, tmdbId, sourceDetails, all, allRecommendations,
          caught, result, scoreIn, scoreOut>>

handlerVars == <<MINIMUM_VOTE_COUNT, MAX_RECOMMENDATIONS, type, pc, call,
                 issued, delays, tmdbId, sourceDetails, all,
                 allRecommendations, caught, result>>

(***************************************************************************)
(* Bounds and program constants.                                           *)
(***************************************************************************)
\* JavaScript's undefined / NaN.
Undefined == -999

\* Longest "results" array an upstream list response carries.
MaxLen == 1

\* fetchWithRetry's default third parameter.
Retries == 3

DefaultMinimumVoteCount == 50

DefaultMaxRecommendations == 30

MinOf(a, b) == IF a <= b THEN a ELSE b

MaxOf(a, b) == IF a >= b THEN a ELSE b

RECURSIVE Pow2(_)
Pow2(n) == IF n = 0 THEN 1 ELSE 2 * Pow2(n - 1)

\* JavaScript truthiness of a number-or-undefined value: !x.
Falsy(x) == x = Undefined \/ x = 0

(***************************************************************************)
(* Configuration, lines 6-7: parseInt(process.env.X) || default.           *)
(***************************************************************************)
ParseIntOr(env, default) == IF Falsy(env) THEN default ELSE env

\* Values of the environment variables as parseInt reads them (Undefined:
\* unset or not a number).
MinimumVoteCountEnv == {Undefined, 0, 100}

MaxRecommendationsEnv == {Undefined, 0, 1, -1}

(***************************************************************************)
(* Upstream data.                                                          *)
(***************************************************************************)
Endpoints == {"find", "detail", "similar", "recommendations"}

Branches == {"similar", "recommendations"}

Types == {"movie", "series"}

\* Candidates an upstream list may carry.  A and B share an identifier.
Catalogue ==
    { [id |-> 1, title |-> "A", vote_count |-> 100, popularity |-> 10, vote_average |-> 8],
      [id |-> 1, title |-> "B", vote_count |-> 10,  popularity |-> 20, vote_average |-> 9],
      [id |-> 2, title |-> "C", vote_count |-> 60,  popularity |-> 5,  vote_average |-> Undefined] }

Lists == UNION { [1..k -> Catalogue] : k \in 0..MaxLen }

\* A JavaScript value held where the code expects an array.
ArrayOf(items) == [t |-> "array", items |-> items]

NotArray(t) == [t |-> t, items |-> <<>>]

\* JSON bodies of /find: null, {}, or an object with both result arrays.
FindBodies ==
    { [shape |-> "null", movie_results |-> <<>>, tv_results |-> <<>>],
      [shape |-> "empty", movie_results |-> <<>>, tv_results |-> <<>>],
      [shape |-> "object", movie_results |-> <<>>, tv_results |-> <<>>],
      [shape |-> "object", movie_results |-> <<7>>, tv_results |-> <<>>],
      [shape |-> "object", movie_results |-> <<>>, tv_results |-> <<9, 8>>],
      [shape |-> "object", movie_results |-> <<0>>, tv_results |-> <<0>>] }

\* JSON bodies of the detail endpoint.
DetailBodies ==
    { [shape |-> "null", popularity |-> Undefined],
      [shape |-> "object", popularity |-> 0],
      [shape |-> "object", popularity |-> 10] }

\* JSON bodies of the list endpoints: null, {} (no results field), an object
\* whose results is a number, or an object with a results array.
ListBodies ==
    { [shape |-> "null", results |-> NotArray("undefined")],
      [shape |-> "object", results |-> NotArray("undefined")],
      [shape |-> "object", results |-> NotArray("number")] }
    \cup { [shape |-> "object", results |-> ArrayOf(l)] : l \in Lists }

Bodies(e) ==
    CASE e = "find" -> FindBodies
      [] e = "detail" -> DetailBodies
      [] OTHER -> ListBodies

NoBody == [shape |-> "none"]

\* What one HTTP attempt can come to: fetch rejects, or resolves with a
\* status and a body that may not be JSON.
Responses(e) ==
    { [net |-> "error", status |-> 0, json |-> FALSE, body |-> NoBody] }
    \cup { [net |-> "ok", status |-> s, json |-> FALSE, body |-> NoBody] : s \in {200, 503} }
    \cup { [net |-> "ok", status |-> 200, json |-> TRUE, body |-> b] : b \in Bodies(e) }

(***************************************************************************)
(* fetchWithRetry, lines 25-38.                                            *)
(***************************************************************************)
\* response.ok
ResponseOk(status) == status >= 200 /\ status <= 299

\* One pass of the try block throws: fetch rejected, the status is not a
\* success, or response.json() rejected.
AttemptThrows(resp) ==
    \/ resp.net = "error"
    \/ ~ResponseOk(resp.status)
    \/ ~resp.json

\* Line 34: i === retries - 1.
IsLastAttempt(i) == i = Retries - 1

\* Line 26: i < retries.
LoopContinues(i) == i < Retries

\* A backoff that does not grow.
BackoffFixed(i) == 1000

\* Line 35: 1000 * Math.pow(2, i) milliseconds.
Backoff(i) == 1000 * Pow2(i)

\* The outcome of a whole fetchWithRetry call, as its caller sees it.
Returned(body) == [st |-> "returned", body |-> body]

Threw == [st |-> "threw", body |-> NoBody]

\* The loop ran out without returning or throwing: the function returns
\* undefined, which every caller meets as it meets null.
FellThrough(e) ==
    Returned(CHOOSE b \in Bodies(e) : b.shape = "null")

\* What the call saw of a response: whether fetch resolved, response.status,
\* and whether response.json() resolved.
Seen(resp) == [net |-> resp.net, status |-> resp.status, json |-> resp.json]

NoResponse == [net |-> "none", status |-> 0, json |-> FALSE]

IdleCall == [st |-> "idle", i |-> 0, last |-> NoResponse, body |-> NoBody]

FirstAttempt == [st |-> "fetching", i |-> 0, last |-> NoResponse, body |-> NoBody]

(***************************************************************************)
(* getTMDbId, lines 58-75.                                                 *)
(***************************************************************************)
\* Null stands for the null the function returns.
Null == Undefined

\* A resolver that takes a match of either kind.
GetTMDbIdAnyKind(outcome, t) ==
    IF outcome.st = "threw" THEN Null
    ELSE IF outcome.body.shape \in {"null", "empty"} THEN Null
    ELSE LET results == outcome.body.movie_results \o outcome.body.tv_results
         IN IF Len(results) = 0 THEN Null ELSE results[1]

GetTMDbId(outcome, t) ==
    IF outcome.st = "threw" THEN Null                      \* lines 71-73
    ELSE IF outcome.body.shape = "null" THEN Null          \* TypeError, caught
    ELSE IF outcome.body.shape = "empty" THEN Null         \* !results
    ELSE LET results == IF t = "movie" THEN outcome.body.movie_results
                        ELSE outcome.body.tv_results
         IN IF Len(results) = 0 THEN Null ELSE results[1]

(***************************************************************************)
(* getTMDbSimilar / getTMDbRecommendations, lines 77-105.  The two differ  *)
(* only in the URL.                                                        *)
(***************************************************************************)
EmptyArray == ArrayOf(<<>>)

\* A fetcher without its catch block: its promise rejects.
FetcherCatchRethrows == [settled |-> "rejected", value |-> EmptyArray]

\* The catch block, lines 86-89 and 101-104.
FetcherCatch == [settled |-> "fulfilled", value |-> EmptyArray]

GetTMDbList(outcome) ==
    IF outcome.st = "threw" THEN FetcherCatch
    ELSE IF outcome.body.shape = "null" THEN FetcherCatch  \* TypeError, caught
    ELSE IF outcome.body.results.t = "undefined"
         THEN [settled |-> "fulfilled", value |-> EmptyArray]         \* || []
    ELSE [settled |-> "fulfilled", value |-> outcome.body.results]

(***************************************************************************)
(* calculateRelevanceScore, lines 107-123.                                 *)
(***************************************************************************)
\* sourceDetails?.popularity
PopularityOf(details) ==
    IF details.shape = "null" THEN Undefined ELSE details.popularity

\* A guard that looks at the source's popularity only.
MissingSourcePopularity(itemPopularity, sourcePopularity) ==
    Falsy(sourcePopularity)

\* Line 109.
MissingPopularity(itemPopularity, sourcePopularity) ==
    Falsy(sourcePopularity) \/ Falsy(itemPopularity)

\* A popularity component without Math.min.
PopularityScoreUncapped(itemPopularity, sourcePopularity) ==
    (50 * itemPopularity) \div sourcePopularity

\* Line 116: Math.min(item.popularity / sourceDetails.popularity, 1) * 50.
\* The quotient is exact on the values drawn.
PopularityScore(itemPopularity, sourcePopularity) ==
    MinOf((50 * itemPopularity) \div sourcePopularity, 50)

\* Line 117: ((item.vote_average || 0) / 10) * 50.
RatingScore(voteAverage) ==
    IF Falsy(voteAverage) THEN 0 ELSE 5 * voteAverage

CalculateRelevanceScore(item, details) ==
    IF MissingPopularity(item.popularity, PopularityOf(details))
    THEN 0
    ELSE PopularityScore(item.popularity, PopularityOf(details))
         + RatingScore(item.vote_average)

(***************************************************************************)
(* The merge/filter/rank pipeline, lines 154-163.                          *)
(***************************************************************************)
\* self.findIndex(t => t.id === item.id), 1-based.
FindIndex(self, id) ==
    CHOOSE k \in 1..Len(self) :
        /\ self[k].id = id
        /\ \A j \in 1..(k - 1) : self[j].id # id

RECURSIVE Keeping(_, _, _)
\* Array.prototype.filter: the elements whose index the predicate kept, in
\* their order.
Keeping(s, k, kept) ==
    IF k > Len(s) THEN <<>>
    ELSE (IF k \in kept THEN <<s[k]>> ELSE <<>>) \o Keeping(s, k + 1, kept)

\* A deduplication that keeps the last occurrence.
KeepLastOccurrence(self, item, index) ==
    \A j \in (index + 1)..Len(self) : self[j].id # item.id

\* Lines 155-156.
KeepFirstOccurrence(self, item, index) == index = FindIndex(self, item.id)

Dedup(self) ==
    Keeping(self, 1, {k \in 1..Len(self) : KeepFirstOccurrence(self, self[k], k)})

\* Line 157: item.vote_count >= MINIMUM_VOTE_COUNT (undefined >= n is false).
EnoughVotes(item, minimum) ==
    item.vote_count # Undefined /\ item.vote_count >= minimum

FilterVotes(s, minimum) ==
    Keeping(s, 1, {k \in 1..Len(s) : EnoughVotes(s[k], minimum)})

\* Lines 158-161.
WithScore(item, details) ==
    [id |-> item.id, title |-> item.title, vote_count |-> item.vote_count,
     popularity |-> item.popularity, vote_average |-> item.vote_average,
     relevanceScore |-> CalculateRelevanceScore(item, details)]

MapScore(s, details) == [k \in 1..Len(s) |-> WithScore(s[k], details)]

\* Line 162's comparator (b.relevanceScore - a.relevanceScore) > 0: b goes
\* before a.
GoesBefore(b, a) == b.relevanceScore - a.relevanceScore > 0

\* Insert x into a sorted sequence behind every element it does not go
\* before: the sort is stable.
RECURSIVE InsertSorted(_, _)
InsertSorted(sorted, x) ==
    IF sorted = <<>> THEN <<x>>
    ELSE IF GoesBefore(x, Head(sorted)) THEN <<x>> \o sorted
    ELSE <<Head(sorted)>> \o InsertSorted(Tail(sorted), x)

RECURSIVE SortByScore(_)
SortByScore(s) ==
    IF s = <<>> THEN <<>>
    ELSE InsertSorted(SortByScore(SubSeq(s, 1, Len(s) - 1)), s[Len(s)])

\* Line 163: Array.prototype.slice(0, end); a negative end counts from the
\* array's end.
Slice0(s, end) ==
    LET stop == IF end < 0 THEN MaxOf(Len(s) + end, 0) ELSE MinOf(end, Len(s))
    IN SubSeq(s, 1, stop)

\* Line 154: [...similar, ...recommended].
Concat(similar, recommended) == similar \o recommended

Pipeline(similar, recommended, details, minimum, maximum) ==
    Slice0(SortByScore(MapScore(FilterVotes(Dedup(Concat(similar, recommended)),
                                            minimum), details)), maximum)

(***************************************************************************)
(* The output mapper, lines 166-178.  Of a stream, the badge's rating, the *)
(* title and the link are kept; the year and the thumbnail are left out.   *)
(***************************************************************************)
MediaType(t) == IF t = "series" THEN "tv" ELSE t

\* rec.vote_average?.toFixed(1) || '?': the integral part and one decimal
\* digit, or <<>> for '?'.
Badge(voteAverage) ==
    IF voteAverage = Undefined THEN <<>> ELSE <<voteAverage, 0>>

StreamOf(rec, t) ==
    [name |-> Badge(rec.vote_average), title |-> rec.title,
     url |-> <<MediaType(t), rec.id>>]

Streams(recs, t) == [k \in 1..Len(recs) |-> StreamOf(recs[k], t)]

(***************************************************************************)
(* The stream handler, lines 126-188.                                      *)
(***************************************************************************)
Pending == [state |-> "pending", streams |-> <<>>]

\* Lines 138 and 182: return { streams }.
Fulfilled(streams) == [state |-> "fulfilled", streams |-> streams]

\* A handler without lines 184-187: the error leaves the handler.
HandlerCatchRethrows == [state |-> "rejected", streams |-> <<>>]

\* Lines 184-187: the catch block returns { streams: [] }.
HandlerCatch == Fulfilled(<<>>)

\* A handler without the test of line 136.
NoTmdbIdNever(id) == FALSE

\* Line 136: !tmdbId.
NoTmdbId(id) == Falsy(id)

EmptySlot == [settled |-> "pending", value |-> EmptyArray]

\* The fetchers whose promise has settled.
SettledBranches == {b \in Branches : call[b].st \in {"returned", "threw"}}

\* A Promise.all that fills its slots in the order of arrival.
PromiseAllSlotByArrival(branch, settledBefore) ==
    IF settledBefore = {} THEN "similar" ELSE "recommendations"

\* Promise.all, line 148: a value lands in the slot of its promise's
\* position in the argument array, whichever promises settled before it.
PromiseAllSlot(branch, settledBefore) == branch

\* Lines 135-139, run when getTMDbId's fetchWithRetry call ended with
\* `outcome`; c is `call` with that call closed.
AfterFind(outcome, c) ==
    LET id == GetTMDbId(outcome, type)
    IN /\ tmdbId' = id
       /\ IF NoTmdbId(id)
          THEN /\ pc' = "done"
               /\ result' = Fulfilled(<<>>)
               /\ call' = c
               /\ UNCHANGED issued
          ELSE /\ pc' = "detail"
               /\ call' = [c EXCEPT !["detail"] = FirstAttempt]
               /\ issued' = [issued EXCEPT !["detail"] = 1]
               /\ UNCHANGED result
       /\ UNCHANGED <<sourceDetails, all, allRecommendations, caught>>

\* Lines 143-151: the source details arrive (or the call throws into the
\* handler's catch), and both fetchers are started, similar first.
AfterDetail(outcome, c) ==
    /\ IF outcome.st = "threw"
       THEN /\ pc' = "done"
            /\ caught' = TRUE
            /\ result' = HandlerCatch
            /\ call' = c
            /\ UNCHANGED <<sourceDetails, issued>>
       ELSE /\ pc' = "fanout"
            /\ sourceDetails' = outcome.body
            /\ call' = [c EXCEPT !["similar"] = FirstAttempt,
                                 !["recommendations"] = FirstAttempt]
            /\ issued' = [issued EXCEPT !["similar"] = 1,
                                        !["recommendations"] = 1]
            /\ UNCHANGED <<caught, result>>
    /\ UNCHANGED <<tmdbId, all, allRecommendations>>

\* One fetcher's promise settles and Promise.all records it.  A rejection
\* would reject Promise.all at once, into the handler's catch.
AfterBranch(e, outcome, c) ==
    LET slot == GetTMDbList(outcome)
    IN /\ call' = c
       /\ all' = [all EXCEPT ![PromiseAllSlot(e, SettledBranches)] = slot]
       /\ IF slot.settled = "rejected" /\ pc = "fanout"
          THEN /\ pc' = "done"
               /\ caught' = TRUE
               /\ result' = HandlerCatch
          ELSE UNCHANGED <<pc, caught, result>>
       /\ UNCHANGED <<tmdbId, sourceDetails, issued, allRecommendations>>

Continue(e, outcome, c) ==
    CASE e = "find" -> AfterFind(outcome, c)
      [] e = "detail" -> AfterDetail(outcome, c)
      [] OTHER -> AfterBranch(e, outcome, c)

Closed(e, outcome, seen) ==
    [call EXCEPT ![e] = [st |-> outcome.st, i |-> call[e].i, last |-> seen,
                         body |-> outcome.body]]

\* Line 126: the framework invokes the handler, which runs up to its first
\* await: the first attempt of getTMDbId's request.
Invoke ==
    /\ pc = "idle"
    /\ \E t \in Types : type' = t
    /\ pc' = "find"
    /\ call' = [call EXCEPT !["find"] = FirstAttempt]
    /\ issued' = [issued EXCEPT !["find"] = 1]
    /\ UNCHANGED <<MINIMUM_VOTE_COUNT, MAX_RECOMMENDATIONS, delays, tmdbId,
                   sourceDetails, all, allRecommendations, caught,
                   result, scoreIn, scoreOut>>

\* Lines 28-32: an attempt succeeds and fetchWithRetry returns its body.
AttemptSucceeds(e) ==
    /\ call[e].st = "fetching"
    /\ \E resp \in Responses(e) :
          /\ ~AttemptThrows(resp)
          /\ Continue(e, Returned(resp.body),
                      Closed(e, Returned(resp.body), Seen(resp)))
    /\ UNCHANGED <<MINIMUM_VOTE_COUNT, MAX_RECOMMENDATIONS, type, delays,
                   scoreIn, scoreOut>>

\* Lines 33-35: an attempt fails and is not the last: the backoff starts.
AttemptRetries(e) ==
    /\ call[e].st = "fetching"
    /\ ~IsLastAttempt(call[e].i)
    /\ \E resp \in Responses(e) :
          /\ AttemptThrows(resp)
          /\ call' = [call EXCEPT ![e].st = "backoff", ![e].last = Seen(resp)]
    /\ delays' = [delays EXCEPT ![e] = Append(@, Backoff(call[e].i))]
    /\ UNCHANGED <<MINIMUM_VOTE_COUNT, MAX_RECOMMENDATIONS, type, pc, issued,
                   tmdbId, sourceDetails, all, allRecommendations,
                   caught, result, scoreIn, scoreOut>>

\* Line 34: the last attempt fails and its error is thrown to the caller.
AttemptExhausts(e) ==
    /\ call[e].st = "fetching"
    /\ IsLastAttempt(call[e].i)
    /\ \E resp \in Responses(e) :
          /\ AttemptThrows(resp)
          /\ Continue(e, Threw, Closed(e, Threw, Seen(resp)))
    /\ UNCHANGED <<MINIMUM_VOTE_COUNT, MAX_RECOMMENDATIONS, type, delays,
                   scoreIn, scoreOut>>

\* Lines 35 and 26: the timer fires, i++, and the next attempt is issued if
\* the loop condition still holds; otherwise the function returns undefined.
BackoffElapses(e) ==
    /\ call[e].st = "backoff"
    /\ IF LoopContinues(call[e].i + 1)
       THEN /\ call' = [call EXCEPT ![e].st = "fetching", ![e].i = @ + 1,
                                    ![e].last = NoResponse]
            /\ issued' = [issued EXCEPT ![e] = @ + 1]
            /\ UNCHANGED <<pc, tmdbId, sourceDetails, all,
                           allRecommendations, caught, result>>
       ELSE Continue(e, FellThrough(e), Closed(e, FellThrough(e), call[e].last))
    /\ UNCHANGED <<MINIMUM_VOTE_COUNT, MAX_RECOMMENDATIONS, type, delays,
                   scoreIn, scoreOut>>

\* Lines 154-182, and 184-187 when the spread throws: what the handler
\* computes from the two values Promise.all hands it.  Spreading a value that
\* is no array is a TypeError.
Ranking ==
    LET similar == all["similar"].value
        recommended == all["recommendations"].value
    IN IF similar.t = "array" /\ recommended.t = "array"
       THEN LET recs == Pipeline(similar.items, recommended.items, sourceDetails,
                                 MINIMUM_VOTE_COUNT, MAX_RECOMMENDATIONS)
            IN [threw |-> FALSE, recs |-> recs,
                result |-> Fulfilled(Streams(recs, type))]
       ELSE [threw |-> TRUE, recs |-> allRecommendations, result |-> HandlerCatch]

\* Lines 148-182: Promise.all resolves once both fetchers have settled; the
\* handler ranks, maps and returns.
Join ==
    /\ pc = "fanout"
    /\ SettledBranches = Branches
    /\ allRecommendations' = Ranking.recs
    /\ result' = Ranking.result
    /\ caught' = Ranking.threw
    /\ pc' = "done"
    /\ UNCHANGED <<MINIMUM_VOTE_COUNT, MAX_RECOMMENDATIONS, type, call, issued,
                   delays, tmdbId, sourceDetails, all, scoreIn, scoreOut>>

NoScore == [called |-> FALSE, value |-> 0]

NoScoreIn == [item |-> [popularity |-> Undefined, vote_average |-> Undefined],
              details |-> [shape |-> "null", popularity |-> Undefined]]

\* The state of a started process before any request: lines 1-13 and 191.
ProcessStarted ==
    /\ \E env \in MinimumVoteCountEnv :
          MINIMUM_VOTE_COUNT = ParseIntOr(env, DefaultMinimumVoteCount)
    /\ \E env \in MaxRecommendationsEnv :
          MAX_RECOMMENDATIONS = ParseIntOr(env, DefaultMaxRecommendations)
    /\ type = "movie"
    /\ pc = "idle"
    /\ call = [e \in Endpoints |-> IdleCall]
    /\ issued = [e \in Endpoints |-> 0]
    /\ delays = [e \in Endpoints |-> <<>>]
    /\ tmdbId = Undefined
    /\ sourceDetails = NoBody
    /\ all = [b \in Branches |-> EmptySlot]
    /\ allRecommendations = <<>>
    /\ caught = FALSE
    /\ result = Pending

Init ==
    /\ ProcessStarted
    /\ scoreIn = NoScoreIn
    /\ scoreOut = NoScore

Next ==
    \/ Invoke
    \/ \E e \in Endpoints : AttemptSucceeds(e)
    \/ \E e \in Endpoints : AttemptRetries(e)
    \/ \E e \in Endpoints : AttemptExhausts(e)
    \/ \E e \in Endpoints : BackoffElapses(e)
    \/ Join

Spec == Init /\ [][Next]_vars

(***************************************************************************)
(* calculateRelevanceScore called on its own, over inputs inside and       *)
(* outside the data the provider serves: missing, zero, negative and       *)
(* over-range values.                                                      *)
(***************************************************************************)
ItemPopularities == {Undefined, -5, 0, 5, 10, 20}

SourcePopularities == {Undefined, -5, 0, 5, 10}

VoteAverages == {Undefined, -1, 0, 7, 10, 12}

ScoreInputs ==
    { [item |-> [popularity |-> p, vote_average |-> v], details |-> d] :
        p \in ItemPopularities, v \in VoteAverages,
        d \in { [shape |-> "null", popularity |-> Undefined] }
              \cup { [shape |-> "object", popularity |-> sp] : sp \in SourcePopularities } }

ScoreInit ==
    /\ ProcessStarted
    /\ scoreIn \in ScoreInputs
    /\ scoreOut = NoScore

Score ==
    /\ ~scoreOut.called
    /\ scoreOut' = [called |-> TRUE,
                    value |-> CalculateRelevanceScore(scoreIn.item, scoreIn.details)]
    /\ UNCHANGED <<handlerVars, scoreIn>>

ScoreNext == Score

ScoreSpec == ScoreInit /\ [][ScoreNext]_vars

(***************************************************************************)
(* Claims.                                                                 *)
(***************************************************************************)
Done == pc = "done"

Settled(e) == call[e].st \in {"returned", "threw"}

InFlight(e) == call[e].st \in {"fetching", "backoff"}

\* The array a fetcher's upstream body carries, when it carries one.
HasArray(e) ==
    /\ call[e].st = "returned"
    /\ call[e].body.shape = "object"
    /\ call[e].body.results.t = "array"

\* The candidates a fetcher contributes, read off what its call came to: the
\* body's array, and nothing after a failure or a body without results.
Contributed(e) == IF HasArray(e) THEN call[e].body.results.items ELSE <<>>

\* A fetcher handed the handler something that cannot be spread.
Unspreadable(e) ==
    /\ call[e].st = "returned"
    /\ call[e].body.shape = "object"
    /\ call[e].body.results.t = "number"

\* C7 as claimed: popularity <= 0 or source popularity <= 0, negative and
\* missing values included, gives a score of exactly 0.
C7_ZeroScoreForNonPositive ==
    LET p == scoreIn.item.popularity
        sp == PopularityOf(scoreIn.details)
    IN (scoreOut.called /\ (p = Undefined \/ p <= 0 \/ sp = Undefined \/ sp <= 0))
       => scoreOut.value = 0

\* C7 as amended: a popularity or source popularity that is zero or missing
\* gives a score of exactly 0, whatever the vote average.
C7_ZeroScoreForZeroOrMissing ==
    LET p == scoreIn.item.popularity
        sp == PopularityOf(scoreIn.details)
    IN (scoreOut.called /\ (p = Undefined \/ p = 0 \/ sp = Undefined \/ sp = 0))
       => scoreOut.value = 0

C7_Witness ==
    /\ scoreOut.called
    /\ scoreIn.item.popularity = 0
    /\ scoreIn.item.vote_average = 10
    /\ PopularityOf(scoreIn.details) = 10
    /\ scoreOut.value = 0

\* C8 as claimed: for all inputs the score lies in [0,100].
C8_ScoreInRange ==
    scoreOut.called => (scoreOut.value >= 0 /\ scoreOut.value <= 100)

\* C8 as amended: the score lies in [0,100] when both popularities are
\* missing or >= 0 and the vote average is missing or within 0..10.
C8_ScoreInRangeOnDataModel ==
    LET p == scoreIn.item.popularity
        sp == PopularityOf(scoreIn.details)
        v == scoreIn.item.vote_average
    IN (/\ scoreOut.called
        /\ (p = Undefined \/ p >= 0)
        /\ (sp = Undefined \/ sp >= 0)
        /\ (v = Undefined \/ (v >= 0 /\ v <= 10)))
       => (scoreOut.value >= 0 /\ scoreOut.value <= 100)

C8_Witness ==
    /\ scoreOut.called
    /\ scoreIn.item.popularity = 20
    /\ PopularityOf(scoreIn.details) = 5
    /\ scoreIn.item.vote_average = 10
    /\ scoreOut.value = 100

\* The handler ranked: it got past the spread of line 154.
Ranked == Done /\ call["detail"].st = "returned" /\ ~caught

\* C1: whatever the four outbound calls come to (a body, a malformed body, a
\* failure after the retries), the handler's promise never rejects; once the
\* handler is done it has returned {streams: <sequence>}; and the sequence is
\* empty when the lookup failed, when the source-detail call failed, and when
\* the handler's catch block ran.
C1_HandlerNeverRaises ==
    /\ result.state # "rejected"
    /\ Done <=> result.state = "fulfilled"
    /\ DOMAIN result.streams = 1..Len(result.streams)
    /\ (Done /\ (call["find"].st = "threw" \/ call["detail"].st = "threw" \/ caught))
          => result.streams = <<>>
    /\ call["detail"].st = "threw" => Done
    /\ (Settled("similar") /\ Settled("recommendations")
          /\ (Unspreadable("similar") \/ Unspreadable("recommendations")) /\ Done)
          => (caught /\ result.streams = <<>>)

C1_Witness ==
    /\ Done
    /\ caught
    /\ call["detail"].st = "returned"
    /\ Unspreadable("similar")
    /\ Contributed("recommendations") # <<>>
    /\ result = Fulfilled(<<>>)

Sorted(r) ==
    \A j, k \in 1..Len(r) : j < k => r[j].relevanceScore >= r[k].relevanceScore

NoDuplicateIds(r) ==
    \A j, k \in 1..Len(r) : j # k => r[j].id # r[k].id

RankedOutputShape ==
    LET r == allRecommendations
    IN /\ Len(result.streams) = Len(r)
       /\ \A k \in 1..Len(r) :
             /\ result.streams[k].url = <<MediaType(type), r[k].id>>
             /\ result.streams[k].title = r[k].title
       /\ Sorted(r)
       /\ NoDuplicateIds(r)
       /\ \A k \in 1..Len(r) : r[k].vote_count >= MINIMUM_VOTE_COUNT

\* C2: for every fetched pair of lists, source item and configured
\* minimum/maximum, the returned streams correspond one to one to candidates
\* that are sorted by relevanceScore descending, carry no identifier twice,
\* have vote_count >= MINIMUM_VOTE_COUNT and number at most
\* MAX_RECOMMENDATIONS.
C2_RankedOutputInvariant ==
    Ranked => (RankedOutputShape /\ Len(allRecommendations) <= MAX_RECOMMENDATIONS)

\* What remains of C2 whatever the configuration: order, uniqueness and the
\* vote filter always hold, and the length bound holds for a maximum >= 0.
RankedOutputForSaneMaximum ==
    Ranked => /\ RankedOutputShape
              /\ MAX_RECOMMENDATIONS >= 0
                    => Len(allRecommendations) <= MAX_RECOMMENDATIONS

\* C3: with the lookup and the source details in hand, a fetcher whose
\* retries are exhausted contributes nothing and aborts nothing: the output
\* is the pipeline over the other fetcher's candidates alone; when both are
\* exhausted the output is the empty stream list, returned, not thrown.
C3_PartialDataPreferred ==
    \A failed \in Branches :
        LET other == CHOOSE b \in Branches : b # failed
        IN (Done /\ call[failed].st = "threw" /\ Settled(other) /\ ~Unspreadable(other))
           => /\ ~caught
              /\ result.state = "fulfilled"
              /\ result.streams =
                    Streams(Pipeline(IF other = "similar" THEN Contributed(other) ELSE <<>>,
                                     IF other = "similar" THEN <<>> ELSE Contributed(other),
                                     sourceDetails, MINIMUM_VOTE_COUNT,
                                     MAX_RECOMMENDATIONS), type)
              /\ call[other].st = "threw" => result.streams = <<>>

C3_Witness ==
    /\ Done
    /\ call["similar"].st = "threw"
    /\ call["recommendations"].st = "returned"
    /\ Len(result.streams) = 1
    /\ result.streams[1].title = "A"

\* The delays slept before attempt number n + 1: 1000 * 2^i for i = 0..n-1.
Slept(n) == [j \in 1..n |-> 1000 * 2^(j - 1)]

FailedAttempt(seen) ==
    seen.net = "error" \/ seen.status < 200 \/ seen.status > 299 \/ ~seen.json

\* C4: every fetchWithRetry call issues its attempts one after another, three
\* at most; an attempt that met a network failure or a non-success status
\* failed; the first success returns its body and ends the call; attempt i
\* (0-based) that fails is followed by a backoff of 1000 * 2^i ms unless it is
\* the last; the last failure is thrown to the caller.
C4_BoundedRetryPolicy ==
    \A e \in Endpoints :
        LET c == call[e]
        IN /\ issued[e] <= Retries
           /\ c.st = "idle" => (issued[e] = 0 /\ delays[e] = <<>>)
           /\ c.st = "fetching" =>
                 (c.i < Retries /\ issued[e] = c.i + 1 /\ delays[e] = Slept(c.i))
           /\ c.st = "backoff" =>
                 /\ c.i < Retries - 1
                 /\ issued[e] = c.i + 1
                 /\ delays[e] = Slept(c.i + 1)
                 /\ FailedAttempt(c.last)
           /\ c.st = "returned" =>
                 /\ issued[e] = c.i + 1
                 /\ delays[e] = Slept(c.i)
                 /\ ~FailedAttempt(c.last)
                 /\ c.body \in Bodies(e)
           /\ c.st = "threw" =>
                 /\ issued[e] = Retries
                 /\ c.i = Retries - 1
                 /\ delays[e] = Slept(Retries - 1)
                 /\ FailedAttempt(c.last)

C4_Witness ==
    /\ call["find"].st = "returned"
    /\ issued["find"] = 2
    /\ delays["find"] = <<1000>>
    /\ call["detail"].st = "threw"
    /\ call["detail"].last.status = 503
    /\ issued["detail"] = 3
    /\ delays["detail"] = <<1000, 2000>>

\* The lookup answered, without a match for the requested media kind.
NoMatch ==
    /\ call["find"].st = "returned"
    /\ call["find"].body.shape = "object"
    /\ Len(IF type = "movie" THEN call["find"].body.movie_results
           ELSE call["find"].body.tv_results) = 0

\* C5: when the resolver finds no match for the requested media kind, the
\* handler returns the empty stream list and issues no source-detail, similar
\* or recommendations request.
C5_NoMatchShortCircuits ==
    NoMatch => /\ Done
               /\ result = Fulfilled(<<>>)
               /\ ~caught
               /\ issued["detail"] = 0
               /\ issued["similar"] = 0
               /\ issued["recommendations"] = 0

C5_Witness ==
    /\ NoMatch
    /\ type = "movie"
    /\ call["find"].body.tv_results # <<>>
    /\ Done

IdsOf(s) == {s[k].id : k \in 1..Len(s)}

\* The first element of s with identifier id.
FirstWithId(s, id) == s[CHOOSE k \in 1..Len(s) : s[k].id = id /\ \A j \in 1..(k - 1) : s[j].id # id]

\* C6: of the candidates that share an identifier exactly one survives the
\* deduplication, and for an identifier in both lists it is the similar
\* list's copy: that copy's fields are the ones filtered, scored and emitted.
C6_DedupKeepsSimilarCopy ==
    Ranked =>
        LET similar == Contributed("similar")
            recommended == Contributed("recommendations")
            merged == similar \o recommended
            r == allRecommendations
        IN /\ NoDuplicateIds(r)
           /\ \A k \in 1..Len(r) :
                 LET kept == FirstWithId(merged, r[k].id)
                 IN /\ r[k].id \in IdsOf(similar) => kept = FirstWithId(similar, r[k].id)
                    /\ r[k].title = kept.title
                    /\ r[k].vote_count = kept.vote_count
                    /\ r[k].relevanceScore = CalculateRelevanceScore(kept, sourceDetails)
                    /\ result.streams[k] = StreamOf(kept, type)
           /\ \A id \in IdsOf(merged) :
                 LET kept == FirstWithId(merged, id)
                 IN \* nothing but the vote filter and the truncation removes it
                    (kept.vote_count >= MINIMUM_VOTE_COUNT
                        /\ MAX_RECOMMENDATIONS >= Len(merged))
                    => Cardinality({k \in 1..Len(r) : r[k].id = id}) = 1
           /\ \A id \in IdsOf(similar) \cap IdsOf(recommended) :
                 \* the recommended copy never stands in for the similar one
                 FirstWithId(similar, id).vote_count < MINIMUM_VOTE_COUNT
                    => id \notin IdsOf(r)

C6_Witness ==
    /\ Ranked
    /\ Contributed("similar") # <<>>
    /\ Contributed("recommendations") # <<>>
    /\ Contributed("similar")[1].title = "A"
    /\ Contributed("recommendations")[1].title = "B"
    /\ Len(result.streams) = 1
    /\ result.streams[1].title = "A"

C6_WitnessFiltered ==
    /\ Ranked
    /\ Contributed("similar") # <<>>
    /\ Contributed("recommendations") # <<>>
    /\ Contributed("similar")[1].title = "B"
    /\ Contributed("recommendations")[1].title = "A"
    /\ result.streams = <<>>

\* Any step of one fetchWithRetry call.
StepOf(e) ==
    \/ AttemptSucceeds(e)
    \/ AttemptRetries(e)
    \/ AttemptExhausts(e)
    \/ BackoffElapses(e)

\* C9: the two fetchers run as a fan-out/fan-in: the handler ranks only after
\* both have settled; a fetcher that failed neither ends the request nor
\* stops the other, whose next step stays possible; and the output is a
\* function of what the two fetched, similar before recommended, whichever
\* settled first.
C9_FanOutFanIn ==
    /\ (Done /\ call["detail"].st = "returned")
          => (Settled("similar") /\ Settled("recommendations"))
    /\ \A b \in Branches :
          LET other == CHOOSE o \in Branches : o # b
          IN (Settled(b) /\ InFlight(other))
             => (pc = "fanout" /\ result = Pending /\ ENABLED StepOf(other))
    /\ Ranked =>
          /\ allRecommendations =
                Pipeline(Contributed("similar"), Contributed("recommendations"),
                         sourceDetails, MINIMUM_VOTE_COUNT, MAX_RECOMMENDATIONS)
          /\ result.streams = Streams(allRecommendations, type)

\* Recommendations settled on its first attempt, similar on its third, and
\* all scores tie: similar's candidate still comes first.
C9_Witness ==
    /\ Ranked
    /\ issued["recommendations"] = 1
    /\ issued["similar"] = Retries
    /\ Contributed("similar") # <<>>
    /\ Contributed("recommendations") # <<>>
    /\ Contributed("similar")[1].title = "A"
    /\ Contributed("recommendations")[1].title = "C"
    /\ sourceDetails.shape = "null"
    /\ Len(result.streams) = 2
    /\ result.streams[1].title = "A"
    /\ result.streams[2].title = "C"

\* One fetcher has failed for good while the other is still backing off.
C9_WitnessNoCancel ==
    /\ call["recommendations"].st = "threw"
    /\ call["similar"].st = "backoff"
    /\ call["similar"].i = 1

\* Steps a fetchWithRetry call can still take.
CallMeasure(e) ==
    CASE call[e].st = "idle" -> 2 * Retries + 1
      [] call[e].st = "fetching" -> 2 * (Retries - call[e].i)
      [] call[e].st = "backoff" -> 2 * (Retries - call[e].i) - 1
      [] OTHER -> 0

\* Steps the invocation can still take.
Measure ==
    CallMeasure("find") + CallMeasure("detail") + CallMeasure("similar")
    + CallMeasure("recommendations") + (IF Done THEN 0 ELSE 1)

AttemptBudget ==
    /\ \A e \in Endpoints : issued[e] <= 3
    /\ issued["find"] + issued["detail"] + issued["similar"]
          + issued["recommendations"] <= 12
    /\ issued["detail"] > 0 =>
          (call["find"].st = "returned" /\ ~Falsy(tmdbId) /\ tmdbId = GetTMDbId(call["find"], type))
    /\ \A b \in Branches : issued[b] > 0 => call["detail"].st = "returned"
    /\ Done => result.state = "fulfilled"

\* A step of the invocation is possible: a call can step, or both fetchers
\* have settled and the handler can rank.
CanStep ==
    \/ \E e \in Endpoints : ENABLED StepOf(e)
    \/ (pc = "fanout" /\ SettledBranches = Branches)

\* C10: given that every attempt settles and every timer fires, an invocation
\* returns: until it has, a step is possible, and every step uses up the
\* finite measure; and it issues at most 12 attempts: 3 for the lookup, 3 for
\* the source detail only after the lookup gave an identifier, 3 for each
\* list only after the source detail succeeded.
C10_TerminatesWithinBudget ==
    /\ []AttemptBudget
    /\ []((pc \notin {"idle", "done"}) => CanStep)
    /\ [][Measure' < Measure]_vars

C10_Witness ==
    /\ Done
    /\ result.state = "fulfilled"
    /\ \A e \in Endpoints : issued[e] = 3
    /\ Len(result.streams) = 1
====
